---- MODULE Spec2Model ----
(***************************************************************************)
(* Keyword-driven Slack message consolidation and deduplication engine     *)
(* (slack_knowledge_extractor_simple.py with the utilities of              *)
(* backend/app/utils).                                                     *)
(*                                                                         *)
(* Python strings are modelled as sequences of one-character strings, so   *)
(* that normalisation, singularisation, matching and previews are computed *)
(* character by character as the code computes them.  The SHA-256 digest   *)
(* is modelled as an injective tag on the normalised text; a digest is an  *)
(* opaque value that no message text of the catalogue contains.            *)
(***************************************************************************)
EXTENDS Integers, Sequences, FiniteSets, TLC

(***************************************************************************)
(* Characters and elementary string operations                             *)
(***************************************************************************)
UpperChars ==
    <<"A","B","C","D","E","F","G","H","I","J","K","L","M",
      "N","O","P","Q","R","S","T","U","V","W","X","Y","Z">>

LowerChars ==
    <<"a","b","c","d","e","f","g","h","i","j","k","l","m",
      "n","o","p","q","r","s","t","u","v","w","x","y","z">>

DigitChars ==
    <<"0","1","2","3","4","5","6","7","8","9">>

Range(s) ==
    {s[i] : i \in DOMAIN s}

\* str.lower() on one character
ToLower(c) ==
    IF \E i \in DOMAIN UpperChars : UpperChars[i] = c
    THEN LowerChars[CHOOSE i \in DOMAIN UpperChars : UpperChars[i] = c]
    ELSE c

\* the characters the regex class \s matches
IsSpace(c) ==
    c \in {" ", "\t", "\n", "\r"}

\* the characters the regex class \w matches
IsWordChar(c) ==
    c \in Range(UpperChars) \cup Range(LowerChars) \cup Range(DigitChars) \cup {"_"}

\* the backquote character (one character; the TLA+ lexer accepts no
\* backquote inside a string literal)
Backquote ==
    "BQ"

\* the markdown emphasis characters normalize_text blanks
IsEmphasis(c) ==
    c \in {Backquote, "*", "_", "~"}

RECURSIVE LStrip(_)
LStrip(s) ==
    IF s # <<>> /\ IsSpace(Head(s)) THEN LStrip(Tail(s)) ELSE s

RECURSIVE RStrip(_)
RStrip(s) ==
    IF s # <<>> /\ IsSpace(s[Len(s)]) THEN RStrip(SubSeq(s, 1, Len(s) - 1)) ELSE s

\* str.strip()
Strip(s) ==
    RStrip(LStrip(s))

\* re.sub(r"\s+", " ", s)
RECURSIVE CollapseSpaces(_)
CollapseSpaces(s) ==
    IF s = <<>> THEN <<>>
    ELSE IF IsSpace(Head(s))
         THEN <<" ">> \o CollapseSpaces(LStrip(s))
         ELSE <<Head(s)>> \o CollapseSpaces(Tail(s))

\* str.endswith(suffix)
EndsWith(s, suffix) ==
    /\ Len(s) >= Len(suffix)
    /\ SubSeq(s, Len(s) - Len(suffix) + 1, Len(s)) = suffix

\* needle occurs in s at position i
OccursAt(needle, s, i) ==
    /\ i >= 1
    /\ i + Len(needle) - 1 <= Len(s)
    /\ SubSeq(s, i, i + Len(needle) - 1) = needle

\* needle in s
Contains(s, needle) ==
    \E i \in 1..(Len(s) + 1) : OccursAt(needle, s, i)

\* str.split(): the maximal runs of non-whitespace characters
RECURSIVE SplitWords(_)
SplitWords(s) ==
    LET t == LStrip(s)
        n == IF \E i \in DOMAIN t : IsSpace(t[i])
             THEN (CHOOSE i \in DOMAIN t :
                      IsSpace(t[i]) /\ \A j \in 1..(i - 1) : ~IsSpace(t[j])) - 1
             ELSE Len(t)
    IN  IF t = <<>> THEN <<>>
        ELSE <<SubSeq(t, 1, n)>> \o SplitWords(SubSeq(t, n + 1, Len(t)))

\* " ".join(words)
RECURSIVE JoinWords(_)
JoinWords(words) ==
    IF words = <<>> THEN <<>>
    ELSE IF Len(words) = 1 THEN words[1]
    ELSE words[1] \o <<" ">> \o JoinWords(Tail(words))

(***************************************************************************)
(* backend/app/utils/text_processing.py                                    *)
(***************************************************************************)
BlankEmphasis(c) ==
    IF IsEmphasis(c) THEN " " ELSE c

normalize_text(text) ==
    LET blanked == [i \in DOMAIN text |-> BlankEmphasis(text[i])]
        stripped == Strip(CollapseSpaces(blanked))
    IN  [i \in DOMAIN stripped |-> ToLower(stripped[i])]

singularize_keyword(keyword) ==
    IF keyword = <<>> \/ Strip(keyword) = <<>> THEN keyword
    ELSE LET k == Strip(keyword)
         IN  IF Len(k) > 3 /\ EndsWith(k, <<"i","e","s">>)
             THEN SubSeq(k, 1, Len(k) - 3) \o <<"y">>
             ELSE IF Len(k) > 2 /\ EndsWith(k, <<"e","s">>)
             THEN SubSeq(k, 1, Len(k) - 2)
             ELSE IF Len(k) > 1 /\ EndsWith(k, <<"s">>)
             THEN SubSeq(k, 1, Len(k) - 1)
             ELSE k

\* hashlib.sha256(normalize_text(text)).hexdigest(): an injective digest
hash_content(text) ==
    <<"sha256", normalize_text(text)>>

PreviewWords ==
    3

get_preview_text(text) ==
    IF text = <<>> THEN <<>>
    ELSE LET words == SplitWords(Strip(text))
         IN  IF Len(words) >= PreviewWords
             THEN JoinWords(SubSeq(words, 1, PreviewWords)) \o <<".",".",".">>
             ELSE IF words # <<>>
             THEN JoinWords(words) \o <<".",".",".">>
             ELSE <<>>

(***************************************************************************)
(* Keyword matching (find_matching_keywords)                               *)
(***************************************************************************)
\* the regex assertion \b between positions i-1 and i of s
WordBoundary(s, i) ==
    LET before == i - 1 \in DOMAIN s /\ IsWordChar(s[i - 1])
        after  == i \in DOMAIN s /\ IsWordChar(s[i])
    IN  before # after

\* re.search(rf"\b{re.escape(word)}\b", s)
WordSearch(word, s) ==
    \E i \in 1..(Len(s) + 1) :
        /\ OccursAt(word, s, i)
        /\ WordBoundary(s, i)
        /\ WordBoundary(s, i + Len(word))

KeywordMatches(keyword, normalized_text) ==
    LET normalized_keyword == normalize_text(keyword)
    IN  /\ normalized_keyword # <<>>
        /\ IF " " \in Range(normalized_keyword)
           THEN Contains(normalized_text, normalized_keyword)
           ELSE WordSearch(normalized_keyword, normalized_text)

\* a sort key that puts the shortest keyword first
priority_ascending(keyword) ==
    <<Len(SplitWords(keyword)), Len(keyword)>>

\* the sort key of find_matching_keywords: (-word count, -character length)
priority(keyword) ==
    <<0 - Len(SplitWords(keyword)), 0 - Len(keyword)>>

PriorityLess(a, b) ==
    \/ priority(a)[1] < priority(b)[1]
    \/ priority(a)[1] = priority(b)[1] /\ priority(a)[2] < priority(b)[2]

\* insertion into a list sorted by priority, after the entries of equal key
RECURSIVE InsertByPriority(_, _)
InsertByPriority(k, sorted) ==
    IF sorted = <<>> THEN <<k>>
    ELSE IF PriorityLess(k, Head(sorted))
         THEN <<k>> \o sorted
         ELSE <<Head(sorted)>> \o InsertByPriority(k, Tail(sorted))

\* sorted(matches, key=priority): a stable sort
RECURSIVE SortByPriority(_)
SortByPriority(matches) ==
    IF matches = <<>> THEN <<>>
    ELSE InsertByPriority(matches[Len(matches)],
                          SortByPriority(SubSeq(matches, 1, Len(matches) - 1)))

\* the matches in vocabulary order
MatchList(text, keywords) ==
    SelectSeq(keywords, LAMBDA k : KeywordMatches(k, normalize_text(text)))

\* <<>> stands for None, otherwise <<best_match, sorted_matches>>
find_matching_keywords(text, keywords) ==
    LET matches == MatchList(text, keywords)
    IN  IF matches = <<>> THEN <<>>
        ELSE <<SortByPriority(matches)[1], SortByPriority(matches)>>

(***************************************************************************)
(* Vocabulary (extract_keywords_from_readmes)                              *)
(***************************************************************************)
\* the code points of the characters of a normalised keyword, ascending
CodePointOrder ==
    <<" ">> \o DigitChars \o UpperChars \o LowerChars

CodePoint(c) ==
    CHOOSE i \in DOMAIN CodePointOrder : CodePointOrder[i] = c

\* a < b for Python strings
RECURSIVE StrLess(_, _)
StrLess(a, b) ==
    IF b = <<>> THEN FALSE
    ELSE IF a = <<>> THEN TRUE
    ELSE IF Head(a) = Head(b) THEN StrLess(Tail(a), Tail(b))
    ELSE CodePoint(Head(a)) < CodePoint(Head(b))

\* sorted(candidates)
RECURSIVE SortedStrings(_)
SortedStrings(set) ==
    IF set = {} THEN <<>>
    ELSE LET least == CHOOSE x \in set : \A y \in set \ {x} : StrLess(x, y)
         IN  <<least>> \o SortedStrings(set \ {least})

seeded_keywords ==
    { 
      <<"u","i"," ","i","s","s","u","e","s">>,
      <<"d","a","s","h","b","o","a","r","d">>,
      <<"m","i","a"," ","c","h","a","t","b","o","t">>,
      <<"r","e","c","o","m","m","e","n","d","a","t","i","o","n","s">>,
      <<"o","r","d","e","r"," ","h","i","s","t","o","r","y">>,
      <<"p","e","n","d","i","n","g"," ","a","p","p","r","o","v","a","l","s">>,
      <<"c","a","t","a","l","o","g">>,
      <<"c","a","r","t">>,
      <<"a","u","t","h","e","n","t","i","c","a","t","i","o","n">>,
      <<"r","e","s","t"," ","a","p","i">>,
      <<"d","e","n","t","a","l"," ","c","i","t","y"," ","w","e","b","h","o","o","k">>,
      <<"m","i","a"," ","c","h","a","t"," ","a","p","i">>
    }

kwCat ==
    <<"c","a","t">>

kwReleaseNotes ==
    <<"r","e","l","e","a","s","e"," ","n","o","t","e","s">>

kwTimeout ==
    <<"t","i","m","e","o","u","t"," ","3","0"," ","s">>

\* the candidate phrases found in the README files (bullet items and inline
\* code, normalised, at most four words): one phrase, or three
ReadmeCandidates ==
    { {kwReleaseNotes}, {kwCat, kwReleaseNotes, kwTimeout} }

extract_keywords_from_readmes(candidates) ==
    SortedStrings({normalize_text(k) : k \in candidates \cup seeded_keywords})

(***************************************************************************)
(* Messages as the fetcher returns them (SlackMessage, text already        *)
(* cleaned by clean_slack_message).  NoTs stands for None.                 *)
(***************************************************************************)
NoTs ==
    0

SlackMessage(text, timestamp, thread_ts, sender_name) ==
    [text               |-> text,
     timestamp          |-> timestamp,
     sender_name        |-> sender_name,
     is_thread_reply    |-> thread_ts # NoTs /\ thread_ts # timestamp,
     original_thread_ts |-> IF thread_ts # NoTs /\ thread_ts # timestamp
                            THEN thread_ts ELSE timestamp]

txtPosting ==
    <<"P","o","s","t","i","n","g"," ","t","h","e"," ","r","e","l","e","a","s","e"," ","n","o","t","e","s"," ","f","o","r"," ","v","2">>

txtLooksGood ==
    <<"r","e","l","e","a","s","e"," ","n","o","t","e","s"," ","l","o","o","k"," ","g","o","o","d">>

txtPostingAgain ==
    <<"p","o","s","t","i","n","g"," ","t","h","e"," ","r","e","l","e","a","s","e"," ","n","o","t","e","s"," ","f","o","r"," ","*","V","2","*">>

txtTimeout ==
    <<"d","e","f","a","u","l","t"," ","t","i","m","e","o","u","t"," ","3","0"," ","s"," ","i","s"," ","s","h","o","r","t">>

\* a root message, a reply in its thread, a later root whose text differs
\* from the first in case and emphasis only, and a message about another topic
msgPosting ==
    SlackMessage(txtPosting, 100, NoTs, "ana")

msgLooksGood ==
    SlackMessage(txtLooksGood, 101, 100, "ben")

msgPostingAgain ==
    SlackMessage(txtPostingAgain, 200, NoTs, "ana")

msgTimeout ==
    SlackMessage(txtTimeout, 300, NoTs, "cy")

MessageCatalogue ==
    {msgPosting, msgLooksGood, msgPostingAgain, msgTimeout}

\* the longest list one fetch returns
MaxFetch ==
    2

RECURSIVE ListsUpTo(_, _)
ListsUpTo(set, n) ==
    IF n = 0 THEN {<<>>}
    ELSE {<<>>} \cup { <<m>> \o rest : m \in set, rest \in ListsUpTo(set, n - 1) }

\* what fetch_slack_messages may return: no timestamp twice
FetchResults ==
    { l \in ListsUpTo(MessageCatalogue, MaxFetch) :
         \A i, j \in DOMAIN l : i # j => l[i].timestamp # l[j].timestamp }

(***************************************************************************)
(* Thread grouping (_group_messages_by_thread)                             *)
(***************************************************************************)
\* a thread id that ignores the thread root
thread_id_own_timestamp(msg) ==
    msg.timestamp

\* msg.original_thread_ts or msg.timestamp
thread_id_of(msg) ==
    IF msg.original_thread_ts # NoTs THEN msg.original_thread_ts ELSE msg.timestamp

RECURSIVE InsertByTimestamp(_, _)
InsertByTimestamp(m, sorted) ==
    IF sorted = <<>> THEN <<m>>
    ELSE IF m.timestamp < Head(sorted).timestamp
         THEN <<m>> \o sorted
         ELSE <<Head(sorted)>> \o InsertByTimestamp(m, Tail(sorted))

\* list.sort(key=lambda m: float(m.timestamp)): a stable sort
RECURSIVE SortByTimestamp(_)
SortByTimestamp(msgs) ==
    IF msgs = <<>> THEN <<>>
    ELSE InsertByTimestamp(msgs[Len(msgs)],
                           SortByTimestamp(SubSeq(msgs, 1, Len(msgs) - 1)))

group_messages_by_thread(messages) ==
    [t \in {thread_id_of(messages[i]) : i \in DOMAIN messages} |->
        SortByTimestamp(SelectSeq(messages, LAMBDA m : thread_id_of(m) = t))]

(***************************************************************************)
(* The knowledge store (Supabase table knowledge_items) and the article    *)
(* manager (SlackArticleManager).  An absent value (None) is the empty     *)
(* sequence, a present one a one-element sequence.                         *)
(*                                                                         *)
(* raw_text is the sequence of its entries (joined by blank lines in the   *)
(* code); an entry is the record of the parts format_message_for_storage   *)
(* writes.  The catalogue's messages carry no files.                       *)
(***************************************************************************)
VARIABLES store, run, call, dedup

vars ==
    <<store, run, call, dedup>>

Runs ==
    {1, 2}

\* the most articles the store holds
MaxArticles ==
    3

StoreResponses ==
    {"ok", "fail", "exc"}

\* the row a PATCH with ?id=eq.item_id changes, with the payload's columns set
PatchItem(item, payload) ==
    [f \in DOMAIN item |-> IF f \in DOMAIN payload THEN payload[f] ELSE item[f]]

SupabasePatch(items, item_id, payload) ==
    [i \in DOMAIN items |->
        IF items[i].id = item_id THEN PatchItem(items[i], payload) ELSE items[i]]

\* a table that refuses a row whose topics another row already has
SupabasePostUnique(items, payload) ==
    IF \E i \in DOMAIN items : items[i].topics = payload.topics
    THEN items
    ELSE Append(items, [id |-> Len(items) + 1] @@ payload)

\* the table after a POST: the store assigns the id
SupabasePost(items, payload) ==
    Append(items, [id |-> Len(items) + 1] @@ payload)

find_existing_article(keyword, response, items) ==
    LET topic_singular == singularize_keyword(keyword)
        hits == SelectSeq(items, LAMBDA item : topic_singular \in Range(item.topics))
    IN  IF response # "ok" THEN <<>>
        ELSE IF hits = <<>> THEN <<>>
        ELSE <<hits[1]>>

\* a dedup check that looks at the newest entry only
message_exists_in_last_entry(content_hash, raw_text) ==
    raw_text # <<>> /\ raw_text[Len(raw_text)].msg_hash = content_hash

\* content_hash in str(raw_text)
message_exists_in_article(content_hash, raw_text) ==
    \E i \in DOMAIN raw_text : raw_text[i].msg_hash = content_hash

format_message_for_storage(msg, content_hash) ==
    [message_type |-> IF msg.is_thread_reply THEN "Thread Reply" ELSE "Message",
     sender_name  |-> IF msg.sender_name # "" THEN msg.sender_name ELSE "Unknown",
     date         |-> msg.timestamp,
     text         |-> msg.text,
     msg_hash     |-> content_hash]

\* an append that puts the newest entry first
updated_text_newest_first(article, msg, content_hash) ==
    <<format_message_for_storage(msg, content_hash)>> \o article.raw_text

\* existing_text + "\n\n" + message_entry
updated_text(article, msg, content_hash) ==
    article.raw_text \o <<format_message_for_storage(msg, content_hash)>>

\* the payload create_new_article posts
new_article_payload(topic_singular, msg, content_hash, summary, decisions, key_points, action_items) ==
    [summary      |-> summary,
     topics       |-> <<topic_singular>>,
     decisions    |-> decisions,
     key_points   |-> key_points,
     action_items |-> action_items,
     raw_text     |-> <<format_message_for_storage(msg, content_hash)>>]

(***************************************************************************)
(* The summarizer (summarize_thread_with_openai) answers None or a         *)
(* dictionary with the four required keys.                                 *)
(***************************************************************************)
SummaryWithLists ==
    [summary      |-> "v2 notes were posted and reviewed",
     key_points   |-> <<"notes are out">>,
     decisions    |-> <<"ship v2">>,
     action_items |-> <<"Action: announce">>]

SummaryWithoutLists ==
    [summary      |-> "a short exchange",
     key_points   |-> <<>>,
     decisions    |-> <<>>,
     action_items |-> <<>>]

\* JSON null, which json.loads turns into None (not a str)
JsonNull ==
    "null"

\* a response with the four required keys whose summary is null
SummaryWithNull ==
    [summary      |-> JsonNull,
     key_points   |-> <<>>,
     decisions    |-> <<>>,
     action_items |-> <<>>]

SummarizerOutcomes ==
    {<<>>, <<SummaryWithLists>>, <<SummaryWithoutLists>>, <<SummaryWithNull>>}

\* "\n".join(parts) raises TypeError on a part that is not a str
format_raises(summary_data) ==
    summary_data.summary = JsonNull

NumberedLines(items) ==
    [i \in DOMAIN items |-> ToString(i) \o ". " \o items[i]]

\* the lines format_summary_for_storage joins
format_summary_for_storage(summary_data) ==
    <<"## Summary", summary_data.summary, "">>
    \o (IF summary_data.key_points # <<>>
        THEN <<"## Key Points">> \o NumberedLines(summary_data.key_points) \o <<"">>
        ELSE <<>>)
    \o (IF summary_data.decisions # <<>>
        THEN <<"## Decisions">> \o NumberedLines(summary_data.decisions) \o <<"">>
        ELSE <<>>)
    \o (IF summary_data.action_items # <<>>
        THEN <<"## Action Items">> \o NumberedLines(summary_data.action_items) \o <<"">>
        ELSE <<>>)

\* a refresh that writes the three lists whatever they hold
summary_update_payload_all_lists(summary_data) ==
    [summary      |-> format_summary_for_storage(summary_data),
     decisions    |-> summary_data.decisions,
     key_points   |-> summary_data.key_points,
     action_items |-> summary_data.action_items]

\* the payload update_article_summary_with_ai patches
summary_update_payload(summary_data) ==
    [summary |-> format_summary_for_storage(summary_data)]
    @@ (IF summary_data.decisions # <<>>
        THEN [decisions |-> summary_data.decisions] ELSE <<>>)
    @@ (IF summary_data.key_points # <<>>
        THEN [key_points |-> summary_data.key_points] ELSE <<>>)
    @@ (IF summary_data.action_items # <<>>
        THEN [action_items |-> summary_data.action_items] ELSE <<>>)

(***************************************************************************)
(* SlackKnowledgeExtractor                                                 *)
(***************************************************************************)
\* <<>> stands for None
validate_keyword(keyword) ==
    IF keyword = <<>> \/ Strip(keyword) = <<>> THEN <<>>
    ELSE LET singular == singularize_keyword(Strip(keyword))
             topic_singular == IF singular = <<>> \/ Strip(singular) = <<>>
                               THEN Strip(keyword) ELSE singular
         IN  IF topic_singular = <<>> \/ Strip(topic_singular) = <<>> THEN <<>>
             ELSE Strip(topic_singular)

\* a summary that names the topic and never previews the message
default_summary_topic_only(msg, topic_singular) ==
    <<"S","l","a","c","k"," ","m","e","s","s","a","g","e","s"," ",
      "a","b","o","u","t"," ">> \o topic_singular

\* get_preview_text(msg.text) or f"Slack messages about {topic_singular}"
default_summary(msg, topic_singular) ==
    IF get_preview_text(msg.text) # <<>> THEN get_preview_text(msg.text)
    ELSE <<"S","l","a","c","k"," ","m","e","s","s","a","g","e","s"," ",
           "a","b","o","u","t"," ">> \o topic_singular

\* a branch that creates whatever the lookup returned
process_branch_create_only(existing, content_hash, thread_messages, openai_api_key, topic_singular) ==
    IF thread_messages # <<>> /\ openai_api_key
    THEN "summarize_new"
    ELSE IF SplitWords(topic_singular) = <<>>
    THEN "error"
    ELSE "post"

\* a branch that appends to a found article without the hash check
process_branch_append_unchecked(existing, content_hash, thread_messages, openai_api_key, topic_singular) ==
    IF existing # <<>>
    THEN "patch_raw_text"
    ELSE IF thread_messages # <<>> /\ openai_api_key
    THEN "summarize_new"
    ELSE IF SplitWords(topic_singular) = <<>>
    THEN "error"
    ELSE "post"

\* the branch _process_matched_message takes once the lookup has returned,
\* named by the step that follows
process_branch(existing, content_hash, thread_messages, openai_api_key, topic_singular) ==
    IF existing # <<>>
    THEN IF message_exists_in_article(content_hash, existing[1].raw_text)
         THEN "duplicate"
         ELSE "patch_raw_text"
    ELSE IF thread_messages # <<>> /\ openai_api_key
    THEN "summarize_new"
    ELSE IF SplitWords(topic_singular) = <<>>
    THEN "error"
    ELSE "post"

\* a run that forgets the composite keys it has processed
processed_add_nothing(processed_threads, thread_key) ==
    processed_threads

\* processed_threads.add(thread_key)
processed_add(processed_threads, thread_key) ==
    processed_threads \cup {thread_key}

ZeroStats ==
    [scanned |-> 0, inserted |-> 0, updated |-> 0, summarized |-> 0]

\* counters that take every return that is not an insert for an update
count_result_any_return(stats, result, thread_messages, openai_api_key) ==
    IF result[2] = "inserted"
    THEN [stats EXCEPT !.inserted = @ + 1]
    ELSE [stats EXCEPT !.updated = @ + 1]

\* the counters after _process_matched_message returned (success, action)
count_result(stats, result, thread_messages, openai_api_key) ==
    IF ~result[1] THEN stats
    ELSE IF result[2] = "inserted"
    THEN [stats EXCEPT !.inserted = @ + 1,
                       !.summarized = IF thread_messages # <<>> /\ openai_api_key
                                      THEN @ + 1 ELSE @]
    ELSE IF result[2] = "updated"
    THEN [stats EXCEPT !.updated = @ + 1]
    ELSE stats

(***************************************************************************)
(* The functions of the catalogue's values, tabulated once.                *)
(***************************************************************************)
Vocabularies ==
    {extract_keywords_from_readmes(candidates) : candidates \in ReadmeCandidates}

MatchOf ==
    [keywords \in Vocabularies |->
        [msg \in MessageCatalogue |-> find_matching_keywords(msg.text, keywords)]]

HashOf ==
    [msg \in MessageCatalogue |-> hash_content(msg.text)]

(***************************************************************************)
(* One run of run_extraction_workflow.  The fields log, ops, store_ok,     *)
(* store0, previous and rerun only record what happened:                   *)
(*   ops       the external calls made for the message being handled       *)
(*   log       per message handled: its index, its composite key, the      *)
(*             outcome and the external calls made for it                  *)
(*   store_ok  every store response of the run was a success               *)
(*   store0    the store when the run started                              *)
(*   previous  <<messages, keywords>> of the run that completed just       *)
(*             before with every store response a success, else <<>>       *)
(*   rerun     the run fetched the list of that previous run               *)
(***************************************************************************)
IdleRun ==
    [pc                |-> "idle",
     openai_api_key    |-> FALSE,
     keywords          |-> <<>>,
     messages          |-> <<>>,
     thread_groups     |-> <<>>,
     i                 |-> 0,
     stats             |-> ZeroStats,
     processed_threads |-> {},
     keyword           |-> <<>>,
     topic_singular    |-> <<>>,
     content_hash      |-> <<>>,
     existing_article  |-> <<>>,
     summary_data      |-> <<>>,
     success           |-> "none",
     ops               |-> <<>>,
     log               |-> <<>>,
     store_ok          |-> TRUE,
     store0            |-> <<>>,
     previous          |-> <<>>,
     rerun             |-> FALSE]

\* no function is being called on its own
NoCall ==
    [fn |-> "none", args |-> <<>>, done |-> FALSE, result |-> <<>>]

\* slack_keyword_dedup_extractor.py before main() runs: its view of the
\* table (items) is empty
IdleDedup ==
    [pc       |-> "idle",
     items    |-> <<>>,
     messages |-> <<>>,
     i        |-> 0,
     match    |-> <<>>,
     scanned  |-> 0,
     inserted |-> 0,
     crashed  |-> FALSE]

Init ==
    /\ store = <<>>
    /\ run = [r \in Runs |-> IdleRun]
    /\ call = NoCall
    /\ dedup = IdleDedup

SetRun(r, rec) ==
    /\ run' = [run EXCEPT ![r] = rec]
    /\ UNCHANGED <<call, dedup>>

\* the message the loop of run r is at, and its thread
CurrentMessage(r) ==
    run[r].messages[run[r].i]

CurrentThread(r) ==
    LET msg == CurrentMessage(r)
    IN  IF thread_id_of(msg) \in DOMAIN run[r].thread_groups
        THEN run[r].thread_groups[thread_id_of(msg)]
        ELSE <<msg>>

\* a loop that passes over the message after this one
NextMessageSkipping(rec, key, outcome) ==
    [rec EXCEPT !.pc = "loop",
                !.i = @ + 2,
                !.log = Append(@, [i |-> rec.i, key |-> key,
                                   outcome |-> outcome, ops |-> rec.ops]),
                !.ops = <<>>,
                !.keyword = <<>>,
                !.topic_singular = <<>>,
                !.content_hash = <<>>,
                !.existing_article = <<>>,
                !.summary_data = <<>>]

\* the loop moves to the next message; outcome is what became of this one
NextMessage(rec, key, outcome) ==
    [rec EXCEPT !.pc = "loop",
                !.i = @ + 1,
                !.log = Append(@, [i |-> rec.i, key |-> key,
                                   outcome |-> outcome, ops |-> rec.ops]),
                !.ops = <<>>,
                !.keyword = <<>>,
                !.topic_singular = <<>>,
                !.content_hash = <<>>,
                !.existing_article = <<>>,
                !.summary_data = <<>>]

\* _process_matched_message returned result: count it, next message
Returned(r, rec, result) ==
    NextMessage([rec EXCEPT !.stats = count_result(@, result, CurrentThread(r),
                                                   rec.openai_api_key)],
                <<thread_id_of(CurrentMessage(r)), rec.keyword>>,
                result[2])

\* an exception reached run_extraction_workflow: the run returns False
Raised(rec) ==
    [rec EXCEPT !.pc = "done",
                !.success = FALSE,
                !.store_ok = FALSE,
                !.log = Append(@, [i |-> rec.i, key |-> <<>>,
                                   outcome |-> "exception", ops |-> rec.ops]),
                !.ops = <<>>]

\* format_summary_for_storage raised: nothing catches it below
\* run_extraction_workflow, and no store call has failed
RaisedByFormat(rec) ==
    [Raised(rec) EXCEPT !.store_ok = rec.store_ok]

\* __init__: the environment is read; the store is not touched
StartRun(r, openai_api_key) ==
    /\ run[r].pc \in {"idle", "done"}
    /\ Len(store) + MaxFetch <= MaxArticles
    /\ SetRun(r, [IdleRun EXCEPT
                    !.pc = "init",
                    !.openai_api_key = openai_api_key,
                    !.store0 = store,
                    !.previous = IF /\ run[r].pc = "done"
                                    /\ run[r].success = TRUE
                                    /\ run[r].store_ok
                                    /\ run[r].messages # <<>>
                                 THEN <<run[r].messages, run[r].keywords>>
                                 ELSE <<>>])
    /\ UNCHANGED store

\* run_extraction_workflow, "Load keywords"
LoadKeywords(r, keywords) ==
    /\ run[r].pc = "init"
    /\ SetRun(r, IF keywords = <<>>
                  THEN [run[r] EXCEPT !.pc = "done", !.success = TRUE]
                  ELSE [run[r] EXCEPT !.pc = "vocab", !.keywords = keywords])
    /\ UNCHANGED store

\* a workflow that takes an empty fetch for an error
FetchMessagesEmptyIsError(r, messages) ==
    /\ run[r].pc = "vocab"
    /\ SetRun(r, IF messages = <<>>
                 THEN [run[r] EXCEPT !.pc = "done", !.success = FALSE,
                                     !.previous = <<>>]
                 ELSE [run[r] EXCEPT
                         !.pc = "loop",
                         !.messages = messages,
                         !.thread_groups = group_messages_by_thread(messages),
                         !.i = 1,
                         !.rerun = (run[r].previous = <<messages, run[r].keywords>>),
                         !.previous = <<>>])
    /\ UNCHANGED store

\* run_extraction_workflow, "Fetch messages" and "Group messages by thread"
FetchMessages(r, messages) ==
    /\ run[r].pc = "vocab"
    /\ SetRun(r, IF messages = <<>>
                 THEN [run[r] EXCEPT !.pc = "done", !.success = TRUE,
                                     !.previous = <<>>]
                 ELSE [run[r] EXCEPT
                         !.pc = "loop",
                         !.messages = messages,
                         !.thread_groups = group_messages_by_thread(messages),
                         !.i = 1,
                         !.rerun = (run[r].previous = <<messages, run[r].keywords>>),
                         !.previous = <<>>])
    /\ UNCHANGED store

\* the loop body up to the first store call of _process_matched_message
ScanMessage(r) ==
    /\ run[r].pc = "loop"
    /\ run[r].i <= Len(run[r].messages)
    /\ LET msg == CurrentMessage(r)
           rec == [run[r] EXCEPT !.stats.scanned = @ + 1]
           match_result == MatchOf[rec.keywords][msg]
           best_match == match_result[1]
           thread_key == <<thread_id_of(msg), best_match>>
           topic_singular == validate_keyword(best_match)
       IN  SetRun(r,
             IF match_result = <<>>
             THEN NextMessage(rec, <<>>, "no match")
             ELSE IF best_match = <<>> \/ Strip(best_match) = <<>>
             THEN NextMessage(rec, <<>>, "empty keyword")
             ELSE IF thread_key \in rec.processed_threads
             THEN NextMessage(rec, thread_key, "already processed")
             ELSE IF topic_singular = <<>>
             THEN Returned(r, [rec EXCEPT !.processed_threads =
                                              processed_add(@, thread_key),
                                          !.keyword = best_match],
                           <<FALSE, "error">>)
             ELSE [rec EXCEPT !.pc = "find",
                              !.processed_threads = processed_add(@, thread_key),
                              !.keyword = best_match,
                              !.topic_singular = topic_singular,
                              !.content_hash = HashOf[msg]])
    /\ UNCHANGED store

\* find_existing_article, then the branch of _process_matched_message up to
\* its next external call
FindExisting(r, response) ==
    /\ run[r].pc = "find"
    /\ LET existing == find_existing_article(run[r].keyword, response, store)
           rec == [run[r] EXCEPT
                     !.ops = Append(@, IF response = "exc" THEN "get raised"
                                       ELSE IF existing # <<>> THEN "get found"
                                       ELSE "get none"),
                     !.store_ok = @ /\ response = "ok"]
           branch == process_branch(existing, rec.content_hash, CurrentThread(r),
                                    rec.openai_api_key, rec.topic_singular)
       IN  SetRun(r,
             IF response = "exc" THEN Raised(rec)
             ELSE IF branch = "duplicate"
             THEN Returned(r, rec, <<FALSE, "duplicate">>)
             ELSE IF branch = "error"
             THEN Returned(r, rec, <<FALSE, "error">>)
             ELSE [rec EXCEPT !.pc = branch, !.existing_article = existing])
    /\ UNCHANGED store

\* summarize_thread_with_openai on the create path
SummarizeNew(r, outcome) ==
    /\ run[r].pc = "summarize_new"
    /\ LET rec == [run[r] EXCEPT !.ops = Append(@, "summarize"),
                                 !.summary_data = outcome]
       IN  SetRun(r, IF outcome # <<>> /\ format_raises(outcome[1])
                     THEN RaisedByFormat(rec)
                     ELSE IF SplitWords(rec.topic_singular) = <<>>
                     THEN Returned(r, rec, <<FALSE, "error">>)
                     ELSE [rec EXCEPT !.pc = "post"])
    /\ UNCHANGED store

\* create_new_article: the POST and what follows it
PostArticle(r, response) ==
    /\ run[r].pc = "post"
    /\ LET msg == CurrentMessage(r)
           rec == [run[r] EXCEPT !.ops = Append(@, "post"),
                                 !.store_ok = @ /\ response = "ok"]
           data == rec.summary_data
           payload ==
             IF data # <<>>
             THEN new_article_payload(rec.topic_singular, msg, rec.content_hash,
                                      format_summary_for_storage(data[1]),
                                      data[1].decisions, data[1].key_points,
                                      data[1].action_items)
             ELSE new_article_payload(rec.topic_singular, msg, rec.content_hash,
                                      default_summary(msg, rec.topic_singular),
                                      <<>>, <<>>, <<>>)
       IN  /\ store' = IF response = "ok" THEN SupabasePost(store, payload) ELSE store
           /\ SetRun(r, IF response = "exc" THEN Raised(rec)
                        ELSE IF response = "ok"
                        THEN Returned(r, rec, <<TRUE, "inserted">>)
                        ELSE Returned(r, rec, <<FALSE, "error">>))

\* an append path that refreshes the summary whatever the append returned
PatchRawTextAlwaysRefreshes(r, response) ==
    /\ run[r].pc = "patch_raw_text"
    /\ LET msg == CurrentMessage(r)
           rec == [run[r] EXCEPT !.ops = Append(@, "patch"),
                                 !.store_ok = @ /\ response = "ok"]
           article == rec.existing_article[1]
           payload == [raw_text |-> updated_text(article, msg, rec.content_hash)]
       IN  /\ store' = IF response = "ok"
                       THEN SupabasePatch(store, article.id, payload) ELSE store
           /\ SetRun(r, IF response = "exc" THEN Raised(rec)
                        ELSE IF CurrentThread(r) # <<>> /\ rec.openai_api_key
                        THEN [rec EXCEPT !.pc = "summarize_update"]
                        ELSE IF response # "ok"
                        THEN Returned(r, rec, <<FALSE, "error">>)
                        ELSE Returned(r, rec, <<TRUE, "updated">>))

\* append_to_existing_article: the PATCH of raw_text and what follows it
PatchRawText(r, response) ==
    /\ run[r].pc = "patch_raw_text"
    /\ LET msg == CurrentMessage(r)
           rec == [run[r] EXCEPT !.ops = Append(@, "patch"),
                                 !.store_ok = @ /\ response = "ok"]
           article == rec.existing_article[1]
           payload == [raw_text |-> updated_text(article, msg, rec.content_hash)]
       IN  /\ store' = IF response = "ok"
                       THEN SupabasePatch(store, article.id, payload) ELSE store
           /\ SetRun(r, IF response = "exc" THEN Raised(rec)
                        ELSE IF response # "ok"
                        THEN Returned(r, rec, <<FALSE, "error">>)
                        ELSE IF CurrentThread(r) # <<>> /\ rec.openai_api_key
                        THEN [rec EXCEPT !.pc = "summarize_update"]
                        ELSE Returned(r, rec, <<TRUE, "updated">>))

\* update_article_summary_with_ai: the summarizer call
SummarizeUpdate(r, outcome) ==
    /\ run[r].pc = "summarize_update"
    /\ LET rec == [run[r] EXCEPT !.ops = Append(@, "summarize"),
                                 !.summary_data = outcome]
       IN  SetRun(r, IF outcome = <<>>
                     THEN Returned(r, rec, <<TRUE, "updated">>)
                     ELSE IF format_raises(outcome[1])
                     THEN RaisedByFormat(rec)
                     ELSE [rec EXCEPT !.pc = "patch_summary"])
    /\ UNCHANGED store

\* update_article_summary_with_ai: the PATCH of the summary
PatchSummary(r, response) ==
    /\ run[r].pc = "patch_summary"
    /\ LET rec == [run[r] EXCEPT !.ops = Append(@, "patch"),
                                 !.store_ok = @ /\ response = "ok"]
           article == rec.existing_article[1]
           payload == summary_update_payload(rec.summary_data[1])
       IN  /\ store' = IF response = "ok"
                       THEN SupabasePatch(store, article.id, payload) ELSE store
           /\ SetRun(r, IF response = "exc" THEN Raised(rec)
                        ELSE Returned(r, rec, <<TRUE, "updated">>))

\* the loop is over: the counters are reported and the run returns True
FinishRun(r) ==
    /\ run[r].pc = "loop"
    /\ run[r].i > Len(run[r].messages)
    /\ SetRun(r, [run[r] EXCEPT !.pc = "done", !.success = TRUE])
    /\ UNCHANGED store

\* one step of run r; the store answers with one of responses
StepWith(r, responses) ==
    \/ \E openai_api_key \in BOOLEAN : StartRun(r, openai_api_key)
    \/ \E keywords \in Vocabularies : LoadKeywords(r, keywords)
    \/ \E messages \in FetchResults : FetchMessages(r, messages)
    \/ ScanMessage(r)
    \/ \E response \in responses : FindExisting(r, response)
    \/ \E outcome \in SummarizerOutcomes : SummarizeNew(r, outcome)
    \/ \E response \in responses : PostArticle(r, response)
    \/ \E response \in responses : PatchRawText(r, response)
    \/ \E outcome \in SummarizerOutcomes : SummarizeUpdate(r, outcome)
    \/ \E response \in responses : PatchSummary(r, response)
    \/ FinishRun(r)

\* runs one after the other (no two runs overlap), the store answering in
\* any way
Next ==
    StepWith(1, StoreResponses)

Spec ==
    Init /\ [][Next]_vars

\* runs one after the other, every store call answered with a success
NextOk ==
    StepWith(1, {"ok"})

SpecOk ==
    Init /\ [][NextOk]_vars

\* the longest list a run fetches while another run is under way
MaxConcurrentFetch ==
    1

\* one step of run r, started once, beside the other run
ConcurrentStep(r) ==
    /\ run[r].pc # "done"
    /\ StepWith(r, {"ok"})
    /\ Len(run'[r].messages) <= MaxConcurrentFetch

\* two runs (two invocations of main) against one store, their steps
\* interleaved at the external calls, every store call answered with a
\* success
NextConcurrent ==
    \E r \in Runs : ConcurrentStep(r)

SpecConcurrent ==
    Init /\ [][NextConcurrent]_vars

\* a message of an earlier window: "release notes draft is up"
msgDraft ==
    SlackMessage(<<"r","e","l","e","a","s","e"," ","n","o","t","e","s"," ","d","r","a","f","t"," ","i","s"," ","u","p">>, 50, NoTs, "dee")

\* the store after a run without credential created the article of
\* "release notes" from msgDraft
StoreWithArticle ==
    SupabasePost(<<>>, new_article_payload(validate_keyword(kwReleaseNotes), msgDraft, hash_content(msgDraft.text), default_summary(msgDraft, validate_keyword(kwReleaseNotes)), <<>>, <<>>, <<>>))

InitWithArticle ==
    /\ store = StoreWithArticle
    /\ run = [r \in Runs |-> IdleRun]
    /\ call = NoCall
    /\ dedup = IdleDedup

\* two overlapping runs against a store that holds an article
SpecConcurrentAppend ==
    InitWithArticle /\ [][NextConcurrent]_vars

\* texts of the messages and calls below
txtDashboard ==
    <<"t","h","e"," ","m","i","a"," ","c","h","a","t","b","o","t"," ","d","a","s","h","b","o","a","r","d"," ","i","s"," ","s","l","o","w">>

txtCategory ==
    <<"c","a","t","e","g","o","r","y"," ","l","e","a","d","s">>

txtCatSat ==
    <<"t","h","e"," ","c","a","t"," ","s","a","t">>

txtCppRocks ==
    <<"c","+","+"," ","r","o","c","k","s">>

txtCppx ==
    <<"c","+","+","x"," ","i","s"," ","n","e","w">>

(***************************************************************************)
(* The fetcher (fetch_slack_messages).  A raw message is what the Slack    *)
(* API returns: ts, thread_ts (NoTs when absent), reply_count, text and    *)
(* whether it carries bot_id or subtype.  A channel is the answer of       *)
(* conversations.history and, per thread root, the answer of               *)
(* conversations.replies; an answer is a list of messages, or call_api     *)
(* raises.                                                                 *)
(***************************************************************************)
Answer(messages) ==
    [ok |-> TRUE, messages |-> messages]

Raises ==
    [ok |-> FALSE, messages |-> <<>>]

RawMessage(ts, thread_ts, reply_count, text, bot) ==
    [ts |-> ts, thread_ts |-> thread_ts, reply_count |-> reply_count,
     text |-> text, bot |-> bot]

rawRoot ==
    RawMessage(1, 1, 1, txtCatSat, FALSE)

rawReply ==
    RawMessage(2, 1, 0, txtCategory, FALSE)

rawPlain ==
    RawMessage(3, NoTs, 0, txtDashboard, FALSE)

rawBot ==
    RawMessage(4, NoTs, 0, txtCppRocks, TRUE)

RawMessages ==
    {rawRoot, rawReply, rawPlain, rawBot}

\* process_message: None for a bot message, a subtype or an empty text
process_message(msg) ==
    IF msg.bot \/ msg.text = <<>> THEN <<>>
    ELSE <<SlackMessage(msg.text, msg.ts, msg.thread_ts, "ana")>>

\* process_thread_reply
process_thread_reply(reply, original_ts) ==
    IF reply.bot \/ reply.text = <<>> THEN <<>>
    ELSE <<[text               |-> reply.text,
            timestamp          |-> reply.ts,
            sender_name        |-> "ana",
            is_thread_reply    |-> TRUE,
            original_thread_ts |-> original_ts]>>

\* _fetch_thread_replies: messages[1:], or [] when the call raises
fetch_thread_replies(response) ==
    IF ~response.ok THEN <<>>
    ELSE IF Len(response.messages) > 1 THEN Tail(response.messages)
    ELSE <<>>

\* a timestamp test that lets everything through
never_processed(timestamp, processed_timestamps) ==
    FALSE

\* slack_msg.timestamp in processed_timestamps
already_processed(timestamp, processed_timestamps) ==
    timestamp \in processed_timestamps

\* a failure of one channel that throws away what was fetched before it
after_history_failure_reset(acc) ==
    [acc EXCEPT !.messages = <<>>]

\* except Exception: continue, the messages fetched so far are kept
after_history_failure(acc) ==
    acc

\* the loop over one channel's history; threads is threads_to_fetch, the
\* roots in the order they were met
RECURSIVE ScanHistory(_, _)
ScanHistory(history, acc) ==
    IF history = <<>> THEN acc
    ELSE LET msg == Head(history)
             slack_msg == process_message(msg)
         IN  IF slack_msg = <<>>
                \/ already_processed(slack_msg[1].timestamp, acc.processed_timestamps)
             THEN ScanHistory(Tail(history), acc)
             ELSE ScanHistory(Tail(history),
                    [messages |-> Append(acc.messages, slack_msg[1]),
                     processed_timestamps |->
                        acc.processed_timestamps \cup {slack_msg[1].timestamp},
                     threads |->
                        IF ~slack_msg[1].is_thread_reply /\ msg.reply_count > 0
                        THEN Append(acc.threads, slack_msg[1].timestamp)
                        ELSE acc.threads])

\* the loop over the replies of one thread
RECURSIVE ScanReplies(_, _, _)
ScanReplies(replies, original_ts, acc) ==
    IF replies = <<>> THEN acc
    ELSE LET reply_msg == process_thread_reply(Head(replies), original_ts)
         IN  IF reply_msg = <<>>
                \/ already_processed(reply_msg[1].timestamp, acc.processed_timestamps)
             THEN ScanReplies(Tail(replies), original_ts, acc)
             ELSE ScanReplies(Tail(replies), original_ts,
                    [acc EXCEPT
                       !.messages = Append(@, reply_msg[1]),
                       !.processed_timestamps = @ \cup {reply_msg[1].timestamp}])

\* the loop over threads_to_fetch of one channel
RECURSIVE ScanThreads(_, _, _)
ScanThreads(threads, channel, acc) ==
    IF threads = <<>> THEN acc
    ELSE ScanThreads(Tail(threads), channel,
            ScanReplies(fetch_thread_replies(channel.replies[Head(threads)]),
                        Head(threads), acc))

\* the body of the loop over the selected channels
FetchChannel(channel, acc) ==
    IF ~channel.history.ok THEN after_history_failure(acc)
    ELSE LET scanned == ScanHistory(channel.history.messages,
                                    [acc EXCEPT !.threads = <<>>])
         IN  ScanThreads(scanned.threads, channel, scanned)

RECURSIVE FetchChannels(_, _)
FetchChannels(channels, acc) ==
    IF channels = <<>> THEN acc
    ELSE FetchChannels(Tail(channels), FetchChannel(Head(channels), acc))

fetch_slack_messages(channels) ==
    FetchChannels(channels,
                  [messages |-> <<>>, processed_timestamps |-> {},
                   threads |-> <<>>]).messages

(***************************************************************************)
(* The functions called on their own: one call, its arguments drawn from   *)
(* the sets below.                                                         *)
(***************************************************************************)
MatchTexts ==
    {txtDashboard, txtCategory, txtCatSat, txtCppRocks, txtCppx}

kwDashboard ==
    <<"d","a","s","h","b","o","a","r","d">>

kwMiaChatbot ==
    <<"m","i","a"," ","c","h","a","t","b","o","t">>

kwSlow ==
    <<"s","l","o","w">>

kwCpp ==
    <<"c","+","+">>

MatchKeywords ==
    {kwDashboard, kwMiaChatbot, kwSlow, kwCat, kwCpp}

\* the longest keyword list a call of find_matching_keywords is given
MaxKeywords ==
    3

\* keyword lists as extract_keywords_from_readmes builds them: no keyword
\* twice
KeywordLists ==
    { l \in ListsUpTo(MatchKeywords, MaxKeywords) :
         \A i, j \in DOMAIN l : i # j => l[i] # l[j] }

Pending(fn, args) ==
    [fn |-> fn, args |-> args, done |-> FALSE, result |-> <<>>]

FindMatchingCalls ==
    { Pending("find_matching_keywords", [text |-> text, keywords |-> keywords]) :
         text \in MatchTexts, keywords \in KeywordLists }

\* messages for _group_messages_by_thread: a root that carries no
\* original_thread_ts, two replies to it, another root and its reply
grpRoot ==
    [SlackMessage(txtCatSat, 1, NoTs, "ana") EXCEPT !.original_thread_ts = NoTs]

grpReply2 ==
    SlackMessage(txtCategory, 2, 1, "ben")

grpReply3 ==
    SlackMessage(txtDashboard, 3, 1, "cy")

grpOther ==
    SlackMessage(txtCppRocks, 4, NoTs, "ana")

grpOtherReply ==
    SlackMessage(txtCppx, 5, 4, "ben")

GroupMessages ==
    {grpRoot, grpReply2, grpReply3, grpOther, grpOtherReply}

\* the longest list a call of _group_messages_by_thread is given
MaxGroup ==
    3

GroupCalls ==
    { Pending("group_messages_by_thread", l) :
         l \in { l \in ListsUpTo(GroupMessages, MaxGroup) :
                    \A i, j \in DOMAIN l : i # j => l[i] # l[j] } }

\* the longest history of a channel
MaxHistory ==
    2

\* the most channels a fetch selects
MaxChannels ==
    2

Histories ==
    {Raises} \cup { Answer(l) : l \in { l \in ListsUpTo(RawMessages, MaxHistory) :
                        \A i, j \in DOMAIN l : i # j => l[i] # l[j] } }

\* what conversations.replies answers for the thread of rawRoot: the
\* parent first, the parent once more after the reply, or an error
RepliesResponses ==
    {Raises, Answer(<<rawRoot, rawReply>>), Answer(<<rawRoot, rawReply, rawRoot>>)}

Channels ==
    { [history |-> history, replies |-> (rawRoot.ts :> replies)] :
         history \in Histories, replies \in RepliesResponses }

FetchCalls ==
    { Pending("fetch_slack_messages", channels) :
         channels \in ListsUpTo(Channels, MaxChannels) }

\* texts whose content hash is taken: "Deploy **now**", "deploy now",
\* "DEPLOY  ~NOW~", "*De*ploy now" (part of a word in bold) and "deploy cat"
txtDeployBold ==
    <<"D","e","p","l","o","y"," ","*","*","n","o","w","*","*">>

txtDeployPlain ==
    <<"d","e","p","l","o","y"," ","n","o","w">>

txtDeployShout ==
    <<"D","E","P","L","O","Y"," "," ","~","N","O","W","~">>

txtDeployPartBold ==
    <<"*","D","e","*","p","l","o","y"," ","n","o","w">>

txtDeployCat ==
    <<"d","e","p","l","o","y"," ","c","a","t">>

HashTexts ==
    {txtDeployBold, txtDeployPlain, txtDeployShout, txtDeployPartBold,
     txtDeployCat, txtCatSat, txtDashboard}

HashCalls ==
    {Pending("hash_content", [text |-> text]) : text \in HashTexts}

\* one function is about to be called on one input
InitCalls ==
    /\ store = <<>>
    /\ run = [r \in Runs |-> IdleRun]
    /\ \/ call \in FindMatchingCalls
       \/ call \in GroupCalls
       \/ call \in FetchCalls
       \/ call \in HashCalls
    /\ dedup = IdleDedup

CallFindMatchingKeywords ==
    /\ call.fn = "find_matching_keywords"
    /\ ~call.done
    /\ call' = [call EXCEPT
                  !.done = TRUE,
                  !.result = find_matching_keywords(call.args.text,
                                                    call.args.keywords)]
    /\ UNCHANGED <<store, run, dedup>>

CallGroupMessagesByThread ==
    /\ call.fn = "group_messages_by_thread"
    /\ ~call.done
    /\ call' = [call EXCEPT !.done = TRUE,
                            !.result = group_messages_by_thread(call.args)]
    /\ UNCHANGED <<store, run, dedup>>

CallFetchSlackMessages ==
    /\ call.fn = "fetch_slack_messages"
    /\ ~call.done
    /\ call' = [call EXCEPT !.done = TRUE,
                            !.result = fetch_slack_messages(call.args)]
    /\ UNCHANGED <<store, run, dedup>>

CallHashContent ==
    /\ call.fn = "hash_content"
    /\ ~call.done
    /\ call' = [call EXCEPT !.done = TRUE,
                            !.result = hash_content(call.args.text)]
    /\ UNCHANGED <<store, run, dedup>>

NextCalls ==
    \/ CallHashContent
    \/ CallFetchSlackMessages
    \/ CallFindMatchingKeywords
    \/ CallGroupMessagesByThread

SpecCalls ==
    InitCalls /\ [][NextCalls]_vars

(***************************************************************************)
(* slack_keyword_dedup_extractor.py: one row per new matched message.  A   *)
(* row is modelled by its date column and by the hash line of its          *)
(* raw_text; rows are kept oldest first.                                   *)
(***************************************************************************)
\* the rows the fallback query of exists_message asks for (limit)
ScanLimit ==
    100

\* the most rows the table holds
MaxDedupItems ==
    3

\* the longest history one run of main() fetches
MaxDedupFetch ==
    2

txtCart ==
    <<"c","a","r","t"," ","t","o","t","a","l"," ","i","s"," ","o","f","f">>

\* a message of conversations.history as main() reads it
DedupMessage(ts, text, bot) ==
    [ts |-> ts, text |-> text, bot |-> bot]

DedupMessages ==
    {DedupMessage(1, txtDashboard, FALSE), DedupMessage(2, txtDashboard, FALSE),
     DedupMessage(1, txtCart, FALSE), DedupMessage(3, txtCatSat, FALSE),
     DedupMessage(4, txtCart, TRUE)}

DedupHistories ==
    ListsUpTo(DedupMessages, MaxDedupFetch)

\* the keywords main() loads: the seeded terms, sorted
DedupKeywords ==
    SortedStrings({normalize_text(k) : k \in seeded_keywords})

\* message_matches_keywords: the first keyword of the list that matches
message_matches_keywords(text, keywords) ==
    LET hits == SelectSeq(keywords, LAMBDA kw : KeywordMatches(kw, normalize_text(text)))
    IN  IF hits = <<>> THEN <<>> ELSE <<hits[1]>>

DedupMatchOf ==
    [m \in DedupMessages |-> message_matches_keywords(m.text, DedupKeywords)]

\* the first query of exists_message: rows with date = ts
exists_by_ts(ts, response, items) ==
    response = "ok" /\ \E a \in DOMAIN items : items[a].date = ts

\* the fallback of exists_message: the hash in the raw_text of one of the
\* ScanLimit newest rows
exists_by_hash(content_hash, response, items) ==
    /\ response = "ok"
    /\ \E a \in DOMAIN items :
          /\ a > Len(items) - ScanLimit
          /\ items[a].hash = content_hash

\* insert_message: the row a successful POST adds
insert_message(items, msg, content_hash) ==
    Append(items, [date |-> msg.ts, hash |-> content_hash])

\* an exception of requests reaches main(), which catches nothing here
DedupCrashed ==
    [dedup EXCEPT !.pc = "done", !.crashed = TRUE]

DedupNextMessage(rec) ==
    [rec EXCEPT !.pc = "scan", !.i = @ + 1, !.match = <<>>]

\* main() up to the loop over the fetched messages
DedupStart(messages) ==
    /\ dedup.pc \in {"idle", "done"}
    /\ Len(dedup.items) + Len(messages) <= MaxDedupItems
    /\ dedup' = [IdleDedup EXCEPT !.pc = "scan", !.items = dedup.items,
                                   !.messages = messages, !.i = 1]
    /\ UNCHANGED <<store, run, call>>

\* the loop body up to the dedup check
DedupScan ==
    /\ dedup.pc = "scan"
    /\ dedup.i <= Len(dedup.messages)
    /\ LET m == dedup.messages[dedup.i]
       IN  dedup' = IF m.bot \/ Strip(m.text) = <<>>
                    THEN DedupNextMessage(dedup)
                    ELSE IF DedupMatchOf[m] = <<>>
                    THEN DedupNextMessage([dedup EXCEPT !.scanned = @ + 1])
                    ELSE [dedup EXCEPT !.scanned = @ + 1, !.pc = "exists_ts",
                                       !.match = DedupMatchOf[m]]
    /\ UNCHANGED <<store, run, call>>

\* exists_message, the query by date
DedupExistsByTs(response) ==
    /\ dedup.pc = "exists_ts"
    /\ dedup' = IF response = "exc" THEN DedupCrashed
                ELSE IF exists_by_ts(dedup.messages[dedup.i].ts, response, dedup.items)
                THEN DedupNextMessage(dedup)
                ELSE [dedup EXCEPT !.pc = "exists_hash"]
    /\ UNCHANGED <<store, run, call>>

\* exists_message, the scan of the newest rows
DedupExistsByHash(response) ==
    /\ dedup.pc = "exists_hash"
    /\ dedup' = IF response = "exc" THEN DedupCrashed
                ELSE IF exists_by_hash(hash_content(dedup.messages[dedup.i].text), response, dedup.items)
                THEN DedupNextMessage(dedup)
                ELSE [dedup EXCEPT !.pc = "insert"]
    /\ UNCHANGED <<store, run, call>>

\* insert_message and the counter
DedupInsert(response) ==
    /\ dedup.pc = "insert"
    /\ LET m == dedup.messages[dedup.i]
       IN  dedup' = IF response = "exc" THEN DedupCrashed
                    ELSE IF response = "ok"
                    THEN DedupNextMessage([dedup EXCEPT
                            !.items = insert_message(@, m, hash_content(m.text)),
                            !.inserted = @ + 1])
                    ELSE DedupNextMessage(dedup)
    /\ UNCHANGED <<store, run, call>>

\* the loop is over: the counters are logged and main() returns 0
DedupFinish ==
    /\ dedup.pc = "scan"
    /\ dedup.i > Len(dedup.messages)
    /\ dedup' = [dedup EXCEPT !.pc = "done"]
    /\ UNCHANGED <<store, run, call>>

NextDedup ==
    \/ \E messages \in DedupHistories : DedupStart(messages)
    \/ DedupScan
    \/ \E response \in StoreResponses : DedupExistsByTs(response)
    \/ \E response \in StoreResponses : DedupExistsByHash(response)
    \/ \E response \in StoreResponses : DedupInsert(response)
    \/ DedupFinish

\* runs of main() of the dedup extractor one after the other, the store
\* answering in any way
SpecDedup ==
    Init /\ [][NextDedup]_vars

(***************************************************************************)
(* Properties.  The sequential specifications use run 1.                   *)
(***************************************************************************)
SeqRun ==
    run[1]

\* the hash markers of a raw_text
Hashes(raw_text) ==
    {raw_text[i].msg_hash : i \in DOMAIN raw_text}

\* the first article of items whose topics hold topic, as a set of indices
FirstWithTopic(items, topic) ==
    {a \in DOMAIN items :
        /\ topic \in Range(items[a].topics)
        /\ \A b \in 1..(a - 1) : topic \notin Range(items[b].topics)}

\* message i of the sequential run matched a keyword
Matched(i) ==
    MatchOf[SeqRun.keywords][SeqRun.messages[i]] # <<>>

BestKeyword(i) ==
    MatchOf[SeqRun.keywords][SeqRun.messages[i]][1]

\* the composite key (thread_id, best_keyword) of message i
KeyAt(i) ==
    <<IF SeqRun.messages[i].original_thread_ts # NoTs
      THEN SeqRun.messages[i].original_thread_ts
      ELSE SeqRun.messages[i].timestamp,
      BestKeyword(i)>>

\* the sequential run returned True after its loop
Completed ==
    /\ SeqRun.pc = "done"
    /\ SeqRun.success = TRUE
    /\ SeqRun.messages # <<>>

\* C1: after any sequence of extraction runs over overlapping windows, no
\* article's raw_text holds the hash marker of one content hash twice.
C1_HashAtMostOnce ==
    \A a \in DOMAIN store :
        \A i, j \in DOMAIN store[a].raw_text :
            i # j => store[a].raw_text[i].msg_hash # store[a].raw_text[j].msg_hash

\* a later run met a message whose hash an article written by an earlier
\* run already held, and an article holds more than one entry
C1_Witness ==
    /\ SeqRun.store0 # <<>>
    /\ \E k \in DOMAIN SeqRun.log : SeqRun.log[k].outcome = "duplicate"
    /\ \E a \in DOMAIN store : Len(store[a].raw_text) > 1

\* C2: a run repeated with the same configuration and the same fetched
\* messages, the store having answered every call of both runs with a
\* success, leaves every raw_text as it was and inserts no article.
C2_RerunChangesNothing ==
    (Completed /\ SeqRun.rerun /\ SeqRun.store_ok)
        => /\ Len(store) = Len(SeqRun.store0)
           /\ \A a \in DOMAIN SeqRun.store0 :
                  store[a].raw_text = SeqRun.store0[a].raw_text

\* C3: while every store call succeeds, no two articles carry the same
\* topic, so each singular keyword has at most one article.
C3_OneArticlePerKeyword ==
    \A a, b \in DOMAIN store :
        a # b => Range(store[a].topics) \cap Range(store[b].topics) = {}

\* the entries of raw_text that carry content_hash, as positions
PositionsOf(raw_text, content_hash) ==
    {p \in DOMAIN raw_text : raw_text[p].msg_hash = content_hash}

\* message i of the completed run went through append-or-create
Processed(i) ==
    /\ i \in DOMAIN SeqRun.log
    /\ SeqRun.log[i].outcome \in {"inserted", "updated", "duplicate"}

\* C4: two messages of one run that match the same keyword, both taken
\* through append-or-create, leave exactly one article for that keyword;
\* its raw_text holds an entry for each message, the entries in ascending
\* message timestamp order.
C4_TwoMessagesOneArticle ==
    (/\ Completed
     /\ SeqRun.store_ok
     /\ SeqRun.store0 = <<>>
     /\ Len(SeqRun.messages) = 2
     /\ Matched(1) /\ Matched(2)
     /\ BestKeyword(1) = BestKeyword(2)
     /\ Processed(1) /\ Processed(2)
     /\ HashOf[SeqRun.messages[1]] # HashOf[SeqRun.messages[2]])
        => LET topic == Strip(singularize_keyword(BestKeyword(1)))
               articles == {a \in DOMAIN store : topic \in Range(store[a].topics)}
               lo == IF SeqRun.messages[1].timestamp < SeqRun.messages[2].timestamp
                     THEN 1 ELSE 2
               hi == 3 - lo
           IN  /\ Cardinality(articles) = 1
               /\ \A a \in articles :
                     /\ PositionsOf(store[a].raw_text, HashOf[SeqRun.messages[lo]]) # {}
                     /\ PositionsOf(store[a].raw_text, HashOf[SeqRun.messages[hi]]) # {}
                     /\ \A p \in PositionsOf(store[a].raw_text,
                                             HashOf[SeqRun.messages[lo]]) :
                           \A q \in PositionsOf(store[a].raw_text,
                                                HashOf[SeqRun.messages[hi]]) :
                               p < q

\* the singular of "release notes" as the scenario states it
strReleaseNote ==
    <<"r","e","l","e","a","s","e"," ","n","o","t","e">>

\* C5: with the keyword "release notes" in the vocabulary and an empty
\* store, one run over the single message "Posting the release notes for
\* v2" inserts one article and updates none; the article has topics
\* ["release note"] and its raw_text holds the message text and its hash.
C5_ReleaseNotesScenario ==
    (/\ Completed
     /\ SeqRun.store_ok
     /\ SeqRun.store0 = <<>>
     /\ SeqRun.messages = <<msgPosting>>
     /\ kwReleaseNotes \in Range(SeqRun.keywords))
        => /\ SeqRun.stats.inserted = 1
           /\ SeqRun.stats.updated = 0
           /\ Len(store) = 1
           /\ store[1].topics = <<strReleaseNote>>
           /\ Len(store[1].raw_text) = 1
           /\ store[1].raw_text[1].text = msgPosting.text
           /\ store[1].raw_text[1].msg_hash = hash_content(msgPosting.text)

\* what the run did for each message it has taken up: the finished
\* messages' external calls, and those of the message in progress
OpsSoFar ==
    {SeqRun.log[k].ops : k \in DOMAIN SeqRun.log} \cup {SeqRun.ops}

Calls(ops, label) ==
    {p \in DOMAIN ops : ops[p] = label}

Lookups(ops) ==
    {p \in DOMAIN ops : ops[p] \in {"get found", "get none", "get raised"}}

\* C6: for each message that reaches consolidation the lookup by keyword
\* comes first and happens once; an append (PATCH) only follows a lookup
\* that returned an article, a create (POST) only one that returned none;
\* no message both appends and creates.
C6_LookupThenAppendOrCreate ==
    \A ops \in OpsSoFar :
        /\ ops # <<>> => Lookups(ops) = {1}
        /\ Calls(ops, "post") # {} =>
              /\ ops[1] = "get none"
              /\ Cardinality(Calls(ops, "post")) = 1
              /\ Calls(ops, "patch") = {}
        /\ Calls(ops, "patch") # {} =>
              /\ ops[1] = "get found"
              /\ Calls(ops, "post") = {}

\* one run has created for one message and appended for another
C6_Witness ==
    /\ \E k \in DOMAIN SeqRun.log :
          SeqRun.log[k].outcome = "inserted" /\ Calls(SeqRun.log[k].ops, "post") # {}
    /\ \E k \in DOMAIN SeqRun.log :
          SeqRun.log[k].outcome = "updated" /\ Calls(SeqRun.log[k].ops, "patch") # {}

\* the external calls of the message the run took up last
LastOps ==
    IF SeqRun.pc \in {"loop", "done"} /\ SeqRun.log # <<>>
    THEN SeqRun.log[Len(SeqRun.log)].ops
    ELSE SeqRun.ops

\* the article the lookup for the current keyword returns holds the
\* current message's hash
FoundHoldsHash ==
    /\ SeqRun.pc = "find"
    /\ \E a \in FirstWithTopic(store, singularize_keyword(SeqRun.keyword)) :
          SeqRun.content_hash \in Hashes(store[a].raw_text)

\* C7: when the lookup returns an article whose raw_text already holds the
\* message's content hash, the append returns "duplicate", no PATCH is
\* issued, the store is left as it was and nothing is counted.
C7_DuplicateAppendIsNoOp ==
    [][(FoundHoldsHash /\ LastOps' = <<"get found">>)
          => /\ store' = store
             /\ SeqRun'.pc = "loop"
             /\ Len(SeqRun'.log) = Len(SeqRun.log) + 1
             /\ SeqRun'.log[Len(SeqRun'.log)].outcome = "duplicate"
             /\ SeqRun'.stats.inserted = SeqRun.stats.inserted
             /\ SeqRun'.stats.updated = SeqRun.stats.updated]_vars

\* a message was found to be a duplicate of an entry that another message
\* (another timestamp) had left in the article
C7_Witness ==
    \E k \in DOMAIN SeqRun.log :
        /\ SeqRun.log[k].outcome = "duplicate"
        /\ SeqRun.log[k].ops = <<"get found">>
        /\ \E a \in DOMAIN store : \E p \in DOMAIN store[a].raw_text :
              /\ store[a].raw_text[p].msg_hash = HashOf[SeqRun.messages[k]]
              /\ store[a].raw_text[p].date # SeqRun.messages[k].timestamp

\* C8: within one run, of the messages with one composite key
\* (thread_id, best_keyword) only the first is taken to append-or-create;
\* each later one is skipped with no store call and no summarizer call.
C8_OncePerCompositeKey ==
    \A i, j \in DOMAIN SeqRun.messages :
        (i < j /\ Matched(i) /\ Matched(j) /\ KeyAt(i) = KeyAt(j))
            => /\ j \in DOMAIN SeqRun.log =>
                     /\ SeqRun.log[j].outcome = "already processed"
                     /\ SeqRun.log[j].ops = <<>>
               /\ j = SeqRun.i => SeqRun.pc \in {"loop", "done"}

\* a run skipped the second message of a thread for the same keyword
C8_Witness ==
    \E j \in DOMAIN SeqRun.log :
        /\ SeqRun.log[j].outcome = "already processed"
        /\ \E i \in 1..(j - 1) :
              /\ SeqRun.log[i].outcome \in {"inserted", "updated", "duplicate"}
              /\ KeyAt(i) = KeyAt(j)

\* C9: when a run completes, the store having answered every call with a
\* success, every fetched message whose best keyword had an article at the
\* start of the run that did not hold the message's hash has its entry in
\* that article's raw_text.
C9_EveryMatchAppended ==
    (Completed /\ SeqRun.store_ok)
        => \A i \in DOMAIN SeqRun.messages :
              Matched(i) =>
                 \A a \in FirstWithTopic(SeqRun.store0,
                                         Strip(singularize_keyword(BestKeyword(i)))) :
                    HashOf[SeqRun.messages[i]] \notin Hashes(SeqRun.store0[a].raw_text)
                       => HashOf[SeqRun.messages[i]] \in Hashes(store[a].raw_text)

\* the messages of the run that returned from _process_matched_message
\* with one of outcomes
Outcomes(outcomes) ==
    {k \in DOMAIN SeqRun.log : SeqRun.log[k].outcome \in outcomes}

C11_ErrorsStayPerMessage ==
    (SeqRun.pc = "done" /\ SeqRun.messages # <<>> /\ ~SeqRun.store_ok)
        => /\ SeqRun.success = TRUE
           /\ SeqRun.stats.scanned = Len(SeqRun.messages)

\* the article the run created for message k: articles are appended to the
\* table in the order the run inserted them
CreatedFor(k) ==
    Len(SeqRun.store0) + Cardinality({j \in Outcomes({"inserted"}) : j <= k})

\* C12: with no summarizer credential the summarizer is never called; a
\* message taken to the create branch is inserted whenever the store
\* answers with a success, its summary the plain-text preview of the
\* message; and the run, the store answering with successes, returns True.
C12_NoCredentialStillCreates ==
    (~SeqRun.openai_api_key)
        => /\ \A ops \in OpsSoFar : Calls(ops, "summarize") = {}
           /\ \A k \in DOMAIN SeqRun.log :
                 /\ (SeqRun.store_ok /\ Calls(SeqRun.log[k].ops, "post") # {})
                       => SeqRun.log[k].outcome = "inserted"
                 /\ SeqRun.log[k].outcome = "inserted"
                       => /\ CreatedFor(k) \in DOMAIN store
                          /\ store[CreatedFor(k)].raw_text[1].msg_hash
                                = HashOf[SeqRun.messages[k]]
                          /\ store[CreatedFor(k)].summary
                                = get_preview_text(SeqRun.messages[k].text)
           /\ (SeqRun.pc = "done" /\ SeqRun.store_ok) => SeqRun.success = TRUE

\* a run without credential has created an article and completed
C12_Witness ==
    /\ ~SeqRun.openai_api_key
    /\ Completed
    /\ Outcomes({"inserted"}) # {}
    /\ \A a \in DOMAIN store : a > Len(SeqRun.store0) =>
          store[a].summary = get_preview_text(store[a].raw_text[1].text)

\* the topics and the raw_text of every article, the columns the summarizer
\* has no part in
Core(items) ==
    [a \in DOMAIN items |->
        [topics |-> items[a].topics, raw_text |-> items[a].raw_text]]

\* the table the messages from position i on leave when every store call
\* succeeds and no summary is asked for
RECURSIVE Consolidated(_, _, _)
Consolidated(items, processed, i) ==
    IF i > Len(SeqRun.messages) THEN items
    ELSE IF ~Matched(i) \/ KeyAt(i) \in processed
    THEN Consolidated(items, processed, i + 1)
    ELSE LET msg == SeqRun.messages[i]
             existing == find_existing_article(BestKeyword(i), "ok", items)
             after ==
               IF existing = <<>>
               THEN SupabasePost(items,
                       new_article_payload(validate_keyword(BestKeyword(i)), msg,
                                           HashOf[msg], <<>>, <<>>, <<>>, <<>>))
               ELSE IF HashOf[msg] \in Hashes(existing[1].raw_text)
               THEN items
               ELSE SupabasePatch(items, existing[1].id,
                       [raw_text |-> updated_text(existing[1], msg, HashOf[msg])])
         IN  Consolidated(after, processed \cup {KeyAt(i)}, i + 1)

\* C13: for the same fetched messages, the store answering every call with
\* a success, the articles and each article's topics and raw_text after a
\* run are what they are without any summarizer, whatever the summarizer
\* answered (a summary, nothing, or no call at all for want of a
\* credential).
C13_SummarizerIsPureEnrichment ==
    (SeqRun.pc = "done" /\ SeqRun.messages # <<>> /\ SeqRun.store_ok)
        => Core(store) = Core(Consolidated(SeqRun.store0, {}, 1))

\* C14: nothing stands between a run that has observed "no article for K"
\* and its insert: whatever another run has written to the store in the
\* meantime, the POST adds an article with topics [K].
C14_InsertIsUnguarded ==
    [][\A r \in Runs :
          (run[r].pc = "post" /\ run'[r] # run[r])
             => /\ Len(store') = Len(store) + 1
                /\ store'[Len(store')].topics = <<run[r].topic_singular>>]_vars

\* both runs observed no article for one keyword, a keyword whose lookup
\* finds its article, and both inserted: the store holds two articles for it
C14_Witness ==
    \E k1 \in DOMAIN run[1].log : \E k2 \in DOMAIN run[2].log :
        /\ run[1].log[k1].outcome = "inserted"
        /\ run[2].log[k2].outcome = "inserted"
        /\ run[1].log[k1].ops[1] = "get none"
        /\ run[2].log[k2].ops[1] = "get none"
        /\ run[1].log[k1].key[2] = run[2].log[k2].key[2]
        /\ LET topic == singularize_keyword(run[1].log[k1].key[2])
           IN  /\ topic = Strip(topic)
               /\ Cardinality({a \in DOMAIN store :
                                  topic \in Range(store[a].topics)}) = 2

\* a finished call of find_matching_keywords that found a match
MatchFound ==
    /\ call.fn = "find_matching_keywords"
    /\ call.done
    /\ call.result # <<>>

WordCount(keyword) ==
    Len(SplitWords(keyword))

\* keyword a is more specific than b: more words, or as many and longer
MoreSpecific(a, b) ==
    \/ WordCount(a) > WordCount(b)
    \/ WordCount(a) = WordCount(b) /\ Len(a) > Len(b)

\* the keywords of the call that match its text
MatchedKeywords ==
    {k \in Range(call.args.keywords) :
        KeywordMatches(k, normalize_text(call.args.text))}

\* C15: the best match is a matched keyword than which no matched keyword
\* has more words or, with as many words, more characters; the match list
\* holds the matched keywords, each once, in that order; "mia chatbot"
\* wins over "dashboard" on "the mia chatbot dashboard is slow".
C15_BestMatchIsMostSpecific ==
    MatchFound
        => LET best_match == call.result[1]
               sorted_matches == call.result[2]
           IN  /\ best_match \in MatchedKeywords
               /\ \A k \in MatchedKeywords : ~MoreSpecific(k, best_match)
               /\ Range(sorted_matches) = MatchedKeywords
               /\ Len(sorted_matches) = Cardinality(MatchedKeywords)
               /\ sorted_matches[1] = best_match
               /\ \A i, j \in DOMAIN sorted_matches :
                     i < j => ~MoreSpecific(sorted_matches[j], sorted_matches[i])
               /\ (/\ call.args.text = txtDashboard
                   /\ Range(call.args.keywords) = {kwDashboard, kwMiaChatbot})
                     => best_match = kwMiaChatbot

\* the example: both keywords match, the two-word one is best; and a call
\* where word counts tie and the length decides
C15_Witness ==
    /\ MatchFound
    /\ call.args.text = txtDashboard
    /\ call.args.keywords = <<kwDashboard, kwSlow, kwMiaChatbot>>
    /\ call.result[2] = <<kwMiaChatbot, kwDashboard, kwSlow>>

\* needle stands in s at position i with no letter or digit next to it
WholeWordAt(needle, s, i) ==
    /\ OccursAt(needle, s, i)
    /\ ~(i - 1 \in DOMAIN s /\ IsWordChar(s[i - 1]))
    /\ ~(i + Len(needle) \in DOMAIN s /\ IsWordChar(s[i + Len(needle)]))

\* C16: a single-word keyword matches a text exactly when it stands in the
\* text as a whole word, not inside a longer word: "cat" matches "the cat
\* sat" and not "category leads".
C16_SingleWordIsWholeWord ==
    (call.fn = "find_matching_keywords" /\ call.done)
        => \A k \in Range(call.args.keywords) :
              " " \notin Range(normalize_text(k))
                 => LET text == normalize_text(call.args.text)
                        matched == call.result # <<>> /\ k \in Range(call.result[2])
                    IN  matched <=> \E i \in 1..Len(text) :
                                       WholeWordAt(normalize_text(k), text, i)

\* the thread root timestamp of a message if it has one, else its own
RootOrOwn(msg) ==
    IF msg.original_thread_ts # NoTs THEN msg.original_thread_ts ELSE msg.timestamp

\* C17: grouping puts every message in the group of its thread root
\* timestamp, or of its own timestamp if it has none, and in no other
\* group; every group is in ascending timestamp order whatever the order
\* of the input; [ts 3 reply to 1, ts 1, ts 2 reply to 1] gives one thread
\* keyed 1 holding ts 1, ts 2, ts 3.
C17_GroupedByRootAndSorted ==
    (call.fn = "group_messages_by_thread" /\ call.done)
        => LET messages == call.args
               groups == call.result
           IN  /\ DOMAIN groups = {RootOrOwn(messages[i]) : i \in DOMAIN messages}
               /\ \A i \in DOMAIN messages : \A g \in DOMAIN groups :
                     messages[i] \in Range(groups[g]) <=> g = RootOrOwn(messages[i])
               /\ \A g \in DOMAIN groups :
                     /\ Len(groups[g]) =
                           Cardinality({i \in DOMAIN messages :
                                           RootOrOwn(messages[i]) = g})
                     /\ \A p, q \in DOMAIN groups[g] :
                           p < q => groups[g][p].timestamp < groups[g][q].timestamp
               /\ messages = <<grpReply3, grpRoot, grpReply2>>
                     => /\ DOMAIN groups = {1}
                        /\ groups[1] = <<grpRoot, grpReply2, grpReply3>>

\* the example's call has been made
C17_Witness ==
    /\ call.fn = "group_messages_by_thread"
    /\ call.done
    /\ call.args = <<grpReply3, grpRoot, grpReply2>>
    /\ Len(call.result[1]) = 3

\* a finished call of fetch_slack_messages
Fetched ==
    call.fn = "fetch_slack_messages" /\ call.done

\* C18: the list one fetch returns holds no timestamp twice, and no
\* message that is listed as a reply to itself (a thread's root among its
\* own replies).
C18_NoTimestampTwice ==
    Fetched
        => /\ \A i, j \in DOMAIN call.result :
                 i # j => call.result[i].timestamp # call.result[j].timestamp
           /\ \A i \in DOMAIN call.result :
                 ~(/\ call.result[i].is_thread_reply
                   /\ call.result[i].original_thread_ts = call.result[i].timestamp)

\* the history held the reply and the root, and conversations.replies
\* answered with the root, the reply and the root once more: the fetch
\* returned the two messages once each
C18_Witness ==
    /\ Fetched
    /\ call.args = <<[history |-> Answer(<<rawReply, rawRoot>>),
                      replies |-> (rawRoot.ts :> Answer(<<rawRoot, rawReply, rawRoot>>))]>>
    /\ Len(call.result) = 2

\* the channel with its failed calls answered by empty lists
WithoutFailures(channel) ==
    [history |-> IF channel.history.ok THEN channel.history ELSE Answer(<<>>),
     replies |-> [t \in DOMAIN channel.replies |->
                    IF channel.replies[t].ok THEN channel.replies[t]
                    ELSE Answer(<<>>)]]

\* the raw message is one process_message keeps
Kept(msg) ==
    ~msg.bot /\ msg.text # <<>>

\* channel c is the first whose history was fetched and holds timestamp ts
FirstWith(c, ts) ==
    /\ call.args[c].history.ok
    /\ \E i \in DOMAIN call.args[c].history.messages :
          call.args[c].history.messages[i].ts = ts
    /\ \A b \in 1..(c - 1) :
          ~call.args[b].history.ok
          \/ \A i \in DOMAIN call.args[b].history.messages :
                call.args[b].history.messages[i].ts # ts

\* C19: a channel whose history call fails and a thread whose replies call
\* fails are skipped: the fetch returns what it returns when those calls
\* answer with nothing, which holds every kept message of the histories
\* that were fetched and every kept reply of the threads that were
\* fetched (a timestamp once).
C19_FailedFetchIsSkipped ==
    Fetched
        => /\ call.result =
                 fetch_slack_messages([c \in DOMAIN call.args |->
                                          WithoutFailures(call.args[c])])
           /\ \A c \in DOMAIN call.args :
                 call.args[c].history.ok =>
                    \A i \in DOMAIN call.args[c].history.messages :
                       LET msg == call.args[c].history.messages[i]
                       IN  /\ Kept(msg) =>
                                \E k \in DOMAIN call.result :
                                   call.result[k].timestamp = msg.ts
                           /\ (/\ Kept(msg)
                               /\ msg.reply_count > 0
                               /\ msg.thread_ts \in {NoTs, msg.ts}
                               /\ FirstWith(c, msg.ts)
                               /\ call.args[c].replies[msg.ts].ok) =>
                                \A reply \in Range(Tail(call.args[c].replies[msg.ts].messages)) :
                                   Kept(reply) =>
                                      \E k \in DOMAIN call.result :
                                         call.result[k].timestamp = reply.ts

\* the first channel's history failed and so did the replies of the second
\* channel's thread: the fetch returned the second channel's two messages
C19_Witness ==
    /\ Fetched
    /\ Len(call.args) = 2
    /\ ~call.args[1].history.ok
    /\ call.args[2].history = Answer(<<rawRoot, rawPlain>>)
    /\ ~call.args[2].replies[rawRoot.ts].ok
    /\ Len(call.result) = 2

\* the sequential run ended before its loop: the vocabulary was empty or
\* the fetch returned no message
EndedEarly ==
    /\ SeqRun.pc = "done"
    /\ (SeqRun.keywords = <<>> \/ SeqRun.messages = <<>>)

\* C20: a run whose vocabulary is empty, or whose fetch returns no message,
\* reports success having made no store read, no store write and no
\* summarizer call: nothing is recorded as called or counted, and the store
\* is the one the run started with.  (The vocabulary always holds the
\* seeded keywords, so that the runs that end early are those of an empty
\* fetch.)
C20_NothingToDoIsSuccess ==
    EndedEarly
        => /\ SeqRun.success = TRUE
           /\ SeqRun.ops = <<>>
           /\ SeqRun.log = <<>>
           /\ SeqRun.stats = ZeroStats
           /\ store = SeqRun.store0

\* a run over a store that holds an article fetched nothing and returned
\* True
C20_Witness ==
    /\ EndedEarly
    /\ SeqRun.keywords # <<>>
    /\ SeqRun.success = TRUE
    /\ store # <<>>
    /\ store = SeqRun.store0

\* a finished call of hash_content
Hashed ==
    call.fn = "hash_content" /\ call.done

\* the text without its emphasis characters
WithoutEmphasis(text) ==
    SelectSeq(text, LAMBDA c : ~IsEmphasis(c))

\* the text in lower case
LowerCased(text) ==
    [i \in DOMAIN text |-> ToLower(text[i])]

\* the text with every run of whitespace taken for one space and none at
\* its ends
RunsAsOne(text) ==
    JoinWords(SplitWords(text))

\* the two texts differ in emphasis characters, letter case and whitespace
\* runs only
FormattingOnly(a, b) ==
    RunsAsOne(LowerCased(WithoutEmphasis(a))) = RunsAsOne(LowerCased(WithoutEmphasis(b)))

\* C22: the content hash of a text is the digest of its normal form, and a
\* text that differs from it only in emphasis characters, letter case or
\* whitespace runs has the same content hash.
C22_HashIgnoresFormatting ==
    Hashed
        => /\ call.result = <<"sha256", normalize_text(call.args.text)>>
           /\ \A other \in HashTexts :
                 FormattingOnly(call.args.text, other)
                    => hash_content(other) = call.result

\* the message main() of the dedup extractor is at
DedupCurrent ==
    dedup.messages[dedup.i]

\* C23: the dedup extractor inserts only new messages: whenever it adds a
\* row, the table held no row whose date is the message's ts and no row
\* whose raw_text holds the message's content hash, however the existence
\* queries were answered.
C23_InsertsOnlyNew ==
    [][Len(dedup'.items) > Len(dedup.items)
          => \A a \in DOMAIN dedup.items :
                /\ dedup.items[a].date # DedupCurrent.ts
                /\ dedup.items[a].hash # hash_content(DedupCurrent.text)]_vars

\* the run is inside _process_matched_message for the message it is at
Handling(pc) ==
    pc \in {"find", "summarize_new", "post", "patch_raw_text",
            "summarize_update", "patch_summary"}

\* the phases in their order: INIT, vocabulary loaded, messages fetched and
\* grouped with the messages handled one by one, reported
PhaseRank(pc) ==
    IF pc = "idle" THEN 0
    ELSE IF pc = "init" THEN 1
    ELSE IF pc = "vocab" THEN 2
    ELSE IF pc = "done" THEN 4
    ELSE 3

\* C24: a run passes through its phases in order and never back: before
\* the fetch has completed there is no store read or write and no
\* summarizer call, the store is called and changed only while a message is
\* handled, the messages are handled in the order of the fetched list, one
\* after the other, and the run reports (returns True) only when every
\* fetched message was handled.
C24_PhasesInOrder ==
    /\ [](/\ (SeqRun.pc \in {"init", "vocab"}
               => SeqRun.ops = <<>> /\ SeqRun.log = <<>> /\ store = SeqRun.store0)
          /\ (SeqRun.ops # <<>> => Handling(SeqRun.pc))
          /\ (\A k \in DOMAIN SeqRun.log : SeqRun.log[k].i = k)
          /\ (SeqRun.pc = "loop" \/ Handling(SeqRun.pc)
               => /\ SeqRun.i = Len(SeqRun.log) + 1
                  /\ SeqRun.thread_groups = group_messages_by_thread(SeqRun.messages))
          /\ (SeqRun.pc = "done" /\ SeqRun.success = TRUE /\ SeqRun.messages # <<>>
               => Len(SeqRun.log) = Len(SeqRun.messages)))
    /\ [][/\ (PhaseRank(run'[1].pc) < PhaseRank(run[1].pc)
               => run[1].pc = "done" /\ run'[1].pc = "init")
          /\ (PhaseRank(run'[1].pc) > PhaseRank(run[1].pc) + 1
               => run[1].pc = "vocab" /\ run'[1].messages = <<>>)
          /\ (store' # store => Handling(run[1].pc))]_vars

\* a run fetched two messages, handled both, wrote to the store and
\* returned True
C24_Witness ==
    /\ SeqRun.pc = "done"
    /\ SeqRun.success = TRUE
    /\ Len(SeqRun.messages) = 2
    /\ Len(SeqRun.log) = 2
    /\ SeqRun.log[2].ops # <<>>
    /\ store # SeqRun.store0

\* old is the beginning of new
IsPrefix(old, new) ==
    Len(old) <= Len(new) /\ SubSeq(new, 1, Len(old)) = old

\* C25: under non-concurrent use raw_text is an append-only log: no step
\* of the engine removes an article or removes or rewrites an entry (the
\* raw_text an article had is a prefix of the one it has afterwards), and
\* a successful append adds one entry at the end, the entry of the message
\* being handled with its hash marker.
C25_RawTextIsAppendOnly ==
    [][/\ Len(store') >= Len(store)
       /\ \A a \in DOMAIN store : IsPrefix(store[a].raw_text, store'[a].raw_text)
       /\ (run[1].pc = "patch_raw_text" /\ store' # store
              => \E a \in DOMAIN store :
                    /\ store[a].id = run[1].existing_article[1].id
                    /\ Len(store'[a].raw_text) = Len(store[a].raw_text) + 1
                    /\ store'[a].raw_text[Len(store'[a].raw_text)].msg_hash
                          = hash_content(run[1].messages[run[1].i].text)
                    /\ store'[a].raw_text[Len(store'[a].raw_text)].text
                          = run[1].messages[run[1].i].text
                    /\ \A b \in DOMAIN store \ {a} : store'[b] = store[b])]_vars

\* a message was appended to an article that held an entry already
C25_Witness ==
    /\ SeqRun.log # <<>>
    /\ SeqRun.log[Len(SeqRun.log)].outcome = "updated"
    /\ \E a \in DOMAIN store :
          /\ Len(store[a].raw_text) >= 2
          /\ store[a].raw_text[Len(store[a].raw_text)].msg_hash
                = hash_content(SeqRun.messages[Len(SeqRun.log)].text)

\* C26: on the append path the summarizer is called only after an append
\* that added the message, with a thread and a credential at hand; a
\* message whose append was a duplicate or failed is followed by no
\* summarizer call and no further store write: a duplicate makes the lookup
\* only, a failed append the lookup and its one PATCH.
C26_RefreshOnlyAfterAppend ==
    /\ [](\A k \in DOMAIN SeqRun.log :
            (SeqRun.log[k].outcome \in {"duplicate", "error"}
               /\ SeqRun.log[k].ops # <<>>
               /\ SeqRun.log[k].ops[1] = "get found")
              => SeqRun.log[k].ops \in {<<"get found">>, <<"get found", "patch">>})
    /\ [](SeqRun.pc \in {"summarize_update", "patch_summary"}
            => /\ SeqRun.ops[1] = "get found"
               /\ SeqRun.openai_api_key
               /\ SeqRun.thread_groups[thread_id_of(SeqRun.messages[SeqRun.i])] # <<>>
               /\ \E a \in DOMAIN store :
                     /\ store[a].id = SeqRun.existing_article[1].id
                     /\ store[a].raw_text =
                           Append(SeqRun.existing_article[1].raw_text,
                                  format_message_for_storage(SeqRun.messages[SeqRun.i],
                                                             SeqRun.content_hash)))
    /\ [][run'[1].pc = "summarize_update"
            => run[1].pc = "patch_raw_text" /\ store' # store]_vars

\* one message was appended and its article's summary refreshed, another
\* was a duplicate of an entry of its article
C26_Witness ==
    /\ \E k \in DOMAIN SeqRun.log :
          /\ SeqRun.log[k].outcome = "updated"
          /\ SeqRun.log[k].ops = <<"get found", "patch", "summarize", "patch">>
    /\ \E k \in DOMAIN SeqRun.log :
          /\ SeqRun.log[k].outcome = "duplicate"
          /\ SeqRun.log[k].ops = <<"get found">>

\* C27: a lookup answered with a non-2xx status does not break one article
\* per keyword: the run never inserts an article whose topic an article of
\* the store already has.
C27_NoSecondArticle ==
    [][Len(store') > Len(store)
          => \A a \in DOMAIN store :
                store'[Len(store')].topics[1] \notin Range(store[a].topics)]_vars

\* the value column holds after a refresh with new_value: the previous one
\* when the summarizer's list is empty
Refreshed(previous_value, new_value) ==
    IF new_value = <<>> THEN previous_value ELSE new_value

\* C28: a summary refresh of an existing article changes that article
\* only, and of it only summary, decisions, key_points and action_items:
\* raw_text, topics and id stay, the summary becomes the formatted one, and
\* each list stays at its stored value when the summarizer's list is empty.
C28_RefreshWritesSummaryOnly ==
    [][run[1].pc = "patch_summary" /\ store' # store
          => /\ DOMAIN store' = DOMAIN store
             /\ \A a \in DOMAIN store :
                   IF store[a].id = run[1].existing_article[1].id
                   THEN LET data == run[1].summary_data[1]
                        IN  /\ store'[a].id = store[a].id
                            /\ store'[a].raw_text = store[a].raw_text
                            /\ store'[a].topics = store[a].topics
                            /\ store'[a].summary = format_summary_for_storage(data)
                            /\ store'[a].decisions =
                                  Refreshed(store[a].decisions, data.decisions)
                            /\ store'[a].key_points =
                                  Refreshed(store[a].key_points, data.key_points)
                            /\ store'[a].action_items =
                                  Refreshed(store[a].action_items, data.action_items)
                   ELSE store'[a] = store[a]]_vars

\* an article created with the summarizer's lists was refreshed with a
\* summary that came with empty lists: it kept the lists it had
C28_Witness ==
    /\ SeqRun.log # <<>>
    /\ SeqRun.log[Len(SeqRun.log)].ops = <<"get found", "patch", "summarize", "patch">>
    /\ \E a \in DOMAIN store :
          /\ store[a].summary = format_summary_for_storage(SummaryWithoutLists)
          /\ store[a].decisions = SummaryWithLists.decisions
          /\ store[a].key_points = SummaryWithLists.key_points
          /\ Len(store[a].raw_text) >= 2

\* run r has finished and its one message was appended ("updated")
Appended(r) ==
    /\ run[r].pc = "done"
    /\ Len(run[r].log) = 1
    /\ run[r].log[1].outcome = "updated"

\* C29: no append is lost under interleaving: when two overlapping runs
\* have each appended a different message to the article of one keyword,
\* that article's raw_text holds the entries of both messages.
C29_NoAppendLost ==
    (/\ Appended(1)
     /\ Appended(2)
     /\ run[1].log[1].key[2] = run[2].log[1].key[2]
     /\ hash_content(run[1].messages[1].text) # hash_content(run[2].messages[1].text))
        => \E a \in DOMAIN store :
              /\ hash_content(run[1].messages[1].text) \in Hashes(store[a].raw_text)
              /\ hash_content(run[2].messages[1].text) \in Hashes(store[a].raw_text)

\* C30: the ai-summarized counter counts the articles given a summary the
\* summarizer generated: it grows by one when an article is created with
\* such a summary or refreshed with one, and it stays when an article is
\* created after the summarizer returned none and when nothing is written.
C30_SummarizedCountsSummaries ==
    [][(run'[1].pc # "init")
          => /\ (run[1].pc = "post" /\ Len(store') > Len(store))
                  => run'[1].stats.summarized = run[1].stats.summarized
                        + (IF run[1].summary_data # <<>> THEN 1 ELSE 0)
             /\ (run[1].pc = "patch_summary" /\ store' # store)
                  => run'[1].stats.summarized = run[1].stats.summarized + 1
             /\ (run[1].pc # "patch_summary" /\ store' = store)
                  => run'[1].stats.summarized = run[1].stats.summarized]_vars

====
